---- MODULE Spec2Model ----
(***************************************************************************)
(* Model of app.py, the Streamlit dashboard over the table "empresas".     *)
(*                                                                         *)
(* The script is re-run from its first line on every user interaction.     *)
(* One action of the session specification is one interaction: the change  *)
(* it makes to the session state or to a widget, followed by the complete  *)
(* run of the script that redraws the page.  A button can be clicked only  *)
(* when the page on display offers it enabled; its branch of the script    *)
(* then runs.                                                              *)
(*                                                                         *)
(* Query text is a sequence of fragments whose concatenation is the        *)
(* Python string: literals, column names, numbers printed in decimal and   *)
(* named placeholders of the form %(key)s.                                 *)
(***************************************************************************)
EXTENDS Integers, Sequences, FiniteSets, TLC

VARIABLES
    current_page,          \* st.session_state.current_page
    last_search_time,      \* st.session_state.last_search_time (None or a clock value)
    filtros_carregados,    \* st.session_state.filtros_carregados
    filtros,               \* the values held by the filter widgets
    registros_por_pagina,  \* the value of the page-size selectbox
    now,                   \* the clock, datetime.now(), in ticks
    cliques,               \* navigation clicks since the last filter submission
    tela,                  \* what the last run of the script computed and drew
    metadata_chamada,      \* whether a run of the script has called get_metadata
    b_in,                  \* arguments of a direct call of the query functions
    b_in2,                 \* a second FilterSet of the same shape as b_in.f
    b_out,                 \* results of the direct call
    e_colunas,             \* column names get_table_structure discovered, in order
    e_out                  \* what the head of the script did with them

vars == <<current_page, last_search_time, filtros_carregados, filtros,
          registros_por_pagina, now, cliques, tela, metadata_chamada, b_in, b_in2,
          b_out, e_colunas, e_out>>

sessao == <<current_page, last_search_time, filtros_carregados, filtros,
            registros_por_pagina, now, cliques, tela, metadata_chamada>>

builder == <<b_in, b_in2, b_out>>

esquema == <<e_colunas, e_out>>

-----------------------------------------------------------------------------
(* Program constants *)

MAX_OFFSET == 10000
MAX_PAGINAS == 500
COOLDOWN_SECONDS == 2

\* Python's None, for the optional numbers (capital bounds, last_search_time,
\* total_filtrado); every number the program stores in them is >= 0.
None == -1

\* options of the "Registros por página" selectbox
OpcoesRegistros == <<20, 50, 100>>

-----------------------------------------------------------------------------
(* Bounds of the model *)

\* largest number of size classes selected at once
MaxPortes == 3

\* clock ticks in one second, and the last tick of the clock
TicksPorSegundo == 2
MaxTempo == 4

\* navigation clicks followed between two filter submissions
MaxCliques == 2

-----------------------------------------------------------------------------
(* Python helpers *)

Min(a, b) == IF a < b THEN a ELSE b
Max(a, b) == IF a > b THEN a ELSE b

\* truth value of an optional number: None and 0 are false
NumTruthy(x) == x # None /\ x # 0

\* f"%({key})s", the named placeholder of psycopg2
Placeholder(key) == "%(" \o key \o ")s"

\* f"porte_{i}"
PorteKey(i) == "porte_" \o ToString(i)

\* ','.join(items)
RECURSIVE JoinComma(_)
JoinComma(items) ==
    IF Len(items) = 0 THEN <<>>
    ELSE IF Len(items) = 1 THEN <<items[1]>>
    ELSE <<items[1], ",">> \o JoinComma(Tail(items))

\* the column mapping get_column_mapping returns for a table whose columns
\* carry the first alias of every logical field
MapeamentoPadrao ==
    [cnpj |-> "cnpj_basico", razao_social |-> "razao_social",
     natureza_juridica |-> "natureza_juridica",
     qualificacao |-> "qualificacao_responsavel",
     capital_social |-> "capital_social", porte |-> "porte"]

-----------------------------------------------------------------------------
(* get_table_structure, get_column_mapping *)

\* str.lower() on the column names of the model
Lower(nome) ==
    CASE nome = "CNPJ" -> "cnpj"
      [] nome = "Nome_Empresarial" -> "nome_empresarial"
      [] nome = "NATUREZA" -> "natureza"
      [] nome = "Qualificacao" -> "qualificacao"
      [] nome = "Capital" -> "capital"
      [] nome = "PORTE" -> "porte"
      [] OTHER -> nome

\* colunas_necessarias: the candidate names of every field, in priority order
ColunasNecessarias ==
    [cnpj |-> <<"cnpj_basico", "cnpj", "cnpj_base", "numero_cnpj">>,
     razao_social |-> <<"razao_social", "nome_empresarial", "nome", "razao">>,
     natureza_juridica |-> <<"natureza_juridica", "natureza", "nat_juridica">>,
     qualificacao |-> <<"qualificacao_responsavel", "qualificacao", "qual_responsavel">>,
     capital_social |-> <<"capital_social", "capital", "valor_capital">>,
     porte |-> <<"porte", "porte_empresa", "cod_porte">>]

Campos == DOMAIN ColunasNecessarias

\* df_estrutura['column_name'].str.lower().tolist()
ColunasDisponiveis(cols) == [i \in DOMAIN cols |-> Lower(cols[i])]

\* opcao.lower() in colunas_disponiveis
OpcaoPresente(cols, opcao) ==
    \E i \in DOMAIN cols : ColunasDisponiveis(cols)[i] = Lower(opcao)

\* df_estrutura[column_name.str.lower() == opcao.lower()]['column_name'].iloc[0]
NomeReal(cols, opcao) ==
    LET i == CHOOSE k \in DOMAIN cols :
                 /\ Lower(cols[k]) = Lower(opcao)
                 /\ \A j \in 1..(k - 1) : Lower(cols[j]) # Lower(opcao)
    IN  cols[i]

\* EscolherOpcao taking the last candidate present
RECURSIVE EscolherUltimaOpcao(_, _)
EscolherUltimaOpcao(cols, opcoes) ==
    IF Len(opcoes) = 0 THEN <<>>
    ELSE IF OpcaoPresente(cols, opcoes[Len(opcoes)])
    THEN <<NomeReal(cols, opcoes[Len(opcoes)])>>
    ELSE EscolherUltimaOpcao(cols, SubSeq(opcoes, 1, Len(opcoes) - 1))

\* EscolherOpcao falling back on the first candidate when none is present
RECURSIVE EscolherOpcaoComPadrao(_, _)
EscolherOpcaoComPadrao(cols, opcoes) ==
    IF \E k \in DOMAIN opcoes : OpcaoPresente(cols, opcoes[k])
    THEN LET k == CHOOSE k \in DOMAIN opcoes :
                      /\ OpcaoPresente(cols, opcoes[k])
                      /\ \A j \in 1..(k - 1) : ~OpcaoPresente(cols, opcoes[j])
         IN  <<NomeReal(cols, opcoes[k])>>
    ELSE <<Head(opcoes)>>

\* for opcao in opcoes: if present: record the real name; break
\* (<<>> when no candidate is present)
RECURSIVE EscolherOpcao(_, _)
EscolherOpcao(cols, opcoes) ==
    IF Len(opcoes) = 0 THEN <<>>
    ELSE IF OpcaoPresente(cols, Head(opcoes))
    THEN <<NomeReal(cols, Head(opcoes))>>
    ELSE EscolherOpcao(cols, Tail(opcoes))

\* mapeamento_colunas after the loop over colunas_necessarias
MapeamentoParcial(cols) ==
    [c \in {c \in Campos : EscolherOpcao(cols, ColunasNecessarias[c]) # <<>>} |->
        EscolherOpcao(cols, ColunasNecessarias[c])[1]]

\* the None that get_column_mapping returns
SemMapeamento == <<>>

\* get_column_mapping; no column is discovered when get_table_structure failed
GetColumnMapping(cols) ==
    IF Len(cols) = 0 THEN SemMapeamento
    ELSE IF Cardinality(DOMAIN MapeamentoParcial(cols)) = 6 THEN MapeamentoParcial(cols)
    ELSE SemMapeamento

-----------------------------------------------------------------------------
(* build_query, get_filtered_count, is_heavy_query *)

\* params[key] = value
SetParam(params, key, value) ==
    [k \in DOMAIN params \cup {key} |-> IF k = key THEN value ELSE params[k]]

EmptyParams == [k \in {} |-> None]

\* SetPortes numbering the keys from 1
RECURSIVE SetPortesDesdeUm(_, _, _)
SetPortesDesdeUm(params, portes, i) ==
    IF i >= Len(portes) THEN params
    ELSE SetPortesDesdeUm(SetParam(params, PorteKey(i + 1), portes[i + 1]), portes, i + 1)

\* for i, porte in enumerate(portes): params[f'porte_{i}'] = porte
RECURSIVE SetPortes(_, _, _)
SetPortes(params, portes, i) ==
    IF i >= Len(portes) THEN params
    ELSE SetPortes(SetParam(params, PorteKey(i), portes[i + 1]), portes, i + 1)

\* [f"%(porte_{i})s" for i in range(n)]
PortePlaceholders(n) == [i \in 1..n |-> Placeholder(PorteKey(i - 1))]

\* the clamp at the head of build_query
ClampOffset(offset) == IF offset > MAX_OFFSET THEN MAX_OFFSET ELSE offset

\* the query and the (empty) parameters build_query starts from
RowBase(m) ==
    [query |-> <<"\n    SELECT ", m.cnpj, " as cnpj_basico, \n           ",
                 m.razao_social, " as razao_social, \n           ",
                 m.natureza_juridica, " as natureza_juridica,\n           ",
                 m.qualificacao, " as qualificacao_responsavel, \n           ",
                 m.capital_social, " as capital_social, \n           ",
                 m.porte, " as porte\n    FROM empresas\n    WHERE 1=1\n    ">>,
     params |-> EmptyParams]

\* RowNome with the substring written into the query text
RowNomeInterpolado(r, f, m) ==
    IF f.busca_nome # ""
    THEN [query |-> r.query \o <<" AND UPPER(", m.razao_social, ") LIKE UPPER('",
                                 "%" \o f.busca_nome \o "%", "')">>,
          params |-> SetParam(r.params, "busca_nome", "%" \o f.busca_nome \o "%")]
    ELSE r

\* build_query: if busca_nome
RowNome(r, f, m) ==
    IF f.busca_nome # ""
    THEN [query |-> r.query \o <<" AND UPPER(", m.razao_social, ") LIKE UPPER(",
                                 Placeholder("busca_nome"), ")">>,
          params |-> SetParam(r.params, "busca_nome", "%" \o f.busca_nome \o "%")]
    ELSE r

\* build_query: if portes_selecionados
RowPortes(r, f, m) ==
    IF Len(f.portes) > 0
    THEN [query |-> r.query \o <<" AND ", m.porte, " IN (">>
                      \o JoinComma(PortePlaceholders(Len(f.portes))) \o <<")">>,
          params |-> SetPortes(r.params, f.portes, 0)]
    ELSE r

\* build_query: if natureza_selecionada and natureza_selecionada != 'Todas'
RowNatureza(r, f, m) ==
    IF f.natureza # "" /\ f.natureza # "Todas"
    THEN [query |-> r.query \o <<" AND ", m.natureza_juridica, " = ",
                                 Placeholder("natureza")>>,
          params |-> SetParam(r.params, "natureza", f.natureza)]
    ELSE r

\* build_query: if qualificacao_selecionada and qualificacao_selecionada != 'Todas'
RowQualificacao(r, f, m) ==
    IF f.qualificacao # "" /\ f.qualificacao # "Todas"
    THEN [query |-> r.query \o <<" AND ", m.qualificacao, " = ",
                                 Placeholder("qualificacao")>>,
          params |-> SetParam(r.params, "qualificacao", f.qualificacao)]
    ELSE r

\* build_query: if capital_min is not None
RowCapitalMin(r, f, m) ==
    IF f.capital_min # None
    THEN [query |-> r.query \o <<" AND ", m.capital_social, " >= ",
                                 Placeholder("capital_min")>>,
          params |-> SetParam(r.params, "capital_min", f.capital_min)]
    ELSE r

\* build_query: if capital_max is not None
RowCapitalMax(r, f, m) ==
    IF f.capital_max # None
    THEN [query |-> r.query \o <<" AND ", m.capital_social, " <= ",
                                 Placeholder("capital_max")>>,
          params |-> SetParam(r.params, "capital_max", f.capital_max)]
    ELSE r

\* build_query: ORDER BY, LIMIT and OFFSET
RowOrdem(r, limit, offset, m) ==
    [query |-> r.query \o <<" ORDER BY ", m.razao_social,
                            " LIMIT ", ToString(limit), " OFFSET ", ToString(offset)>>,
     params |-> r.params]

BuildQuery(f, limit, offset, m) ==
    RowOrdem(
        RowCapitalMax(
            RowCapitalMin(
                RowQualificacao(
                    RowNatureza(
                        RowPortes(
                            RowNome(RowBase(m), f, m), f, m), f, m), f, m), f, m), f, m),
        limit, ClampOffset(offset), m)

\* the query and the (empty) parameters get_filtered_count starts from
CountBase ==
    [query |-> <<"SELECT COUNT(*) as total FROM empresas WHERE 1=1">>,
     params |-> EmptyParams]

\* get_filtered_count: if busca_nome
CountNome(r, f, m) ==
    IF f.busca_nome # ""
    THEN [query |-> r.query \o <<" AND UPPER(", m.razao_social, ") LIKE UPPER(",
                                 Placeholder("busca_nome"), ")">>,
          params |-> SetParam(r.params, "busca_nome", "%" \o f.busca_nome \o "%")]
    ELSE r

\* get_filtered_count: if portes_selecionados
CountPortes(r, f, m) ==
    IF Len(f.portes) > 0
    THEN [query |-> r.query \o <<" AND ", m.porte, " IN (">>
                      \o JoinComma(PortePlaceholders(Len(f.portes))) \o <<")">>,
          params |-> SetPortes(r.params, f.portes, 0)]
    ELSE r

\* get_filtered_count: if natureza_selecionada and natureza_selecionada != 'Todas'
CountNatureza(r, f, m) ==
    IF f.natureza # "" /\ f.natureza # "Todas"
    THEN [query |-> r.query \o <<" AND ", m.natureza_juridica, " = ",
                                 Placeholder("natureza")>>,
          params |-> SetParam(r.params, "natureza", f.natureza)]
    ELSE r

\* get_filtered_count: if qualificacao_selecionada and ... != 'Todas'
CountQualificacao(r, f, m) ==
    IF f.qualificacao # "" /\ f.qualificacao # "Todas"
    THEN [query |-> r.query \o <<" AND ", m.qualificacao, " = ",
                                 Placeholder("qualificacao")>>,
          params |-> SetParam(r.params, "qualificacao", f.qualificacao)]
    ELSE r

\* get_filtered_count: if capital_min is not None
CountCapitalMin(r, f, m) ==
    IF f.capital_min # None
    THEN [query |-> r.query \o <<" AND ", m.capital_social, " >= ",
                                 Placeholder("capital_min")>>,
          params |-> SetParam(r.params, "capital_min", f.capital_min)]
    ELSE r

\* CountCapitalMax testing the truth value of the bound
CountCapitalMaxTruthy(r, f, m) ==
    IF NumTruthy(f.capital_max)
    THEN [query |-> r.query \o <<" AND ", m.capital_social, " <= ",
                                 Placeholder("capital_max")>>,
          params |-> SetParam(r.params, "capital_max", f.capital_max)]
    ELSE r

\* get_filtered_count: if capital_max is not None
CountCapitalMax(r, f, m) ==
    IF f.capital_max # None
    THEN [query |-> r.query \o <<" AND ", m.capital_social, " <= ",
                                 Placeholder("capital_max")>>,
          params |-> SetParam(r.params, "capital_max", f.capital_max)]
    ELSE r

\* the query and the parameters get_filtered_count hands to run_query
BuildCountQuery(f, m) ==
    CountCapitalMax(
        CountCapitalMin(
            CountQualificacao(
                CountNatureza(
                    CountPortes(
                        CountNome(CountBase, f, m), f, m), f, m), f, m), f, m), f, m)

\* is_heavy_query: if busca_nome or capital_min or capital_max
TemFiltroEspecifico(f) ==
    f.busca_nome # "" \/ NumTruthy(f.capital_min) \/ NumTruthy(f.capital_max)

IsHeavyQuery(f) ==
    IF TemFiltroEspecifico(f)
    THEN FALSE
    ELSE IF f.natureza # "Todas" \/ f.qualificacao # "Todas"
    THEN FALSE
    ELSE IF Len(f.portes) > 0 /\ Len(f.portes) <= 2
    THEN FALSE
    ELSE TRUE

-----------------------------------------------------------------------------
(* The table "empresas" behind run_query: groups of n identical rows.  "like" *)
(* holds the LIKE patterns of the model that the upper-cased name matches.    *)

Empresas ==
    << [like |-> {"%ACME%"}, porte |-> "05", natureza |-> "2062",
        qualificacao |-> "49", capital |-> 0, n |-> 130],
       [like |-> {"%GAMA%"}, porte |-> "01", natureza |-> "2135",
        qualificacao |-> "50", capital |-> 1000, n |-> 15],
       [like |-> {}, porte |-> "03", natureza |-> "2046",
        qualificacao |-> "10", capital |-> 5000, n |-> 10250] >>

\* the WHERE clause of build_query / get_filtered_count evaluated on one row,
\* with the parameters bound
Satisfaz(row, params) ==
    LET keys == DOMAIN params
    IN  /\ "busca_nome" \in keys => params["busca_nome"] \in row.like
        /\ PorteKey(0) \in keys =>
               \E i \in 0..(MaxPortes - 1) :
                   PorteKey(i) \in keys /\ params[PorteKey(i)] = row.porte
        /\ "natureza" \in keys => params["natureza"] = row.natureza
        /\ "qualificacao" \in keys => params["qualificacao"] = row.qualificacao
        /\ "capital_min" \in keys => row.capital >= params["capital_min"]
        /\ "capital_max" \in keys => row.capital <= params["capital_max"]

RECURSIVE SomaLinhas(_, _)
SomaLinhas(rows, params) ==
    IF Len(rows) = 0 THEN 0
    ELSE (IF Satisfaz(rows[1], params) THEN rows[1].n ELSE 0)
         + SomaLinhas(Tail(rows), params)

\* run_query on the row query: the number of rows of the DataFrame; an
\* exception (or no engine) gives the empty DataFrame
RunQueryLinhas(params, limit, offset, ok) ==
    IF ok THEN Max(0, Min(limit, SomaLinhas(Empresas, params) - offset)) ELSE 0

\* get_filtered_count: df['total'].iloc[0], or 0 when run_query failed
GetFilteredCount(f, m, ok) ==
    IF ok THEN SomaLinhas(Empresas, BuildCountQuery(f, m).params) ELSE 0

-----------------------------------------------------------------------------
(* The main script, from the session state to the page it draws *)

FiltrosPadrao ==
    [busca_nome |-> "", portes |-> <<>>, natureza |-> "Todas",
     qualificacao |-> "Todas", capital_min |-> None, capital_max |-> None]

\* the values the filter widgets can hold in a session of the model
BuscaNomes == {"", "ACME"}

FiltrosBasicos == {[FiltrosPadrao EXCEPT !.busca_nome = b] : b \in BuscaNomes}

FiltrosAvancados ==
    FiltrosBasicos \cup
    { [FiltrosPadrao EXCEPT !.portes = <<"01">>],
      [FiltrosPadrao EXCEPT !.natureza = "2062", !.capital_min = 0] }

\* FiltrosDisponiveis without the gate of filtros_carregados
FiltrosDisponiveisSemGate(carregados) == FiltrosAvancados

\* lines 347-357 and 359-417: without the advanced filters the script uses the
\* defaults; with them, whatever the widgets hold
FiltrosDisponiveis(carregados) ==
    IF carregados THEN FiltrosAvancados ELSE FiltrosBasicos

\* rate limiting: tempo_passado < COOLDOWN_SECONDS blocks the search
PodeBuscar(last, t) ==
    ~(last # None /\ (t - last) < COOLDOWN_SECONDS * TicksPorSegundo)

\* COOLDOWN_SECONDS - int(tempo_passado), shown while the search is blocked
Espera(last, t) ==
    IF PodeBuscar(last, t) THEN None
    ELSE COOLDOWN_SECONDS - ((t - last) \div TicksPorSegundo)

\* PaginaAposAplicar without the reset
PaginaSemReset(page, aplicar) == page

\* if aplicar_filtros: st.session_state.current_page = 1
PaginaAposAplicar(page, aplicar) == IF aplicar THEN 1 ELSE page

\* BuscaAposAplicar storing the time of every run
BuscaSempreAtualiza(last, aplicar, t) == t

\* if aplicar_filtros: st.session_state.last_search_time = datetime.now()
BuscaAposAplicar(last, aplicar, t) == IF aplicar THEN t ELSE last

\* offset = (current_page - 1) * registros_por_pagina
OffsetDaPagina(page, ps) == (page - 1) * ps

\* AvisoNavegacaoLimitada tested after the offset was limited
AvisoAposLimitar(offset) == ClampOffset(offset) > MAX_OFFSET

\* if offset > MAX_OFFSET: st.warning(...)
AvisoNavegacaoLimitada(offset) == offset > MAX_OFFSET

\* LimitarOffset without the limit
LimitarOffsetSemLimite(offset) == offset

\* if offset > MAX_OFFSET: offset = MAX_OFFSET
LimitarOffset(offset) == IF offset > MAX_OFFSET THEN MAX_OFFSET ELSE offset

\* whether the script calls get_filtered_count in this run
ContaExato(aplicar, page) == aplicar \/ page > 1

\* total_filtrado
TotalFiltrado(aplicar, page, f, m, ps, offset, linhas, okCount) ==
    IF ContaExato(aplicar, page) THEN GetFilteredCount(f, m, okCount)
    ELSE IF linhas < ps THEN offset + linhas
    ELSE None

\* the navigation block is drawn: results not empty, total known and larger
\* than one page
MostraNavegacao(linhas, total, ps) ==
    linhas > 0 /\ NumTruthy(total) /\ total > ps

\* TotalPaginas without MAX_PAGINAS
TotalPaginasSemLimite(total, ps) == (total - 1) \div ps + 1

\* total_paginas
TotalPaginas(total, ps) == Min((total - 1) \div ps + 1, MAX_PAGINAS)

\* one run of the script from line 427 on: `inicio` is the session page when
\* the run starts and `page` the session page after "Aplicar Filtros" was
\* handled, `last` the search time the rate limiter reads at clock value t
Desenha(inicio, page, last, f, ps, t, aplicar, okRows, okCount) ==
    LET m == MapeamentoPadrao
        bruto == OffsetDaPagina(page, ps)
        offset == LimitarOffset(bruto)
        bq == BuildQuery(f, ps, offset, m)
        linhas == RunQueryLinhas(bq.params, ps, ClampOffset(offset), okRows)
        total == TotalFiltrado(aplicar, page, f, m, ps, offset, linhas, okCount)
        nav == MostraNavegacao(linhas, total, ps)
    IN  [ aplicar |-> aplicar,
          pagina_inicio |-> inicio,
          pode_buscar |-> PodeBuscar(last, t),
          espera |-> Espera(last, t),
          aviso_pesada |-> aplicar /\ IsHeavyQuery(f),
          aviso_offset |-> AvisoNavegacaoLimitada(bruto),
          offset |-> offset,
          query |-> bq.query,
          params |-> bq.params,
          linhas |-> linhas,
          conta_exato |-> ContaExato(aplicar, page),
          total_filtrado |-> total,
          nav |-> nav,
          total_paginas |-> IF nav THEN TotalPaginas(total, ps) ELSE None ]

\* the complete run of the script: `pagina` and `carregados` are the session
\* values when the run starts, f and ps the widget values, n the navigation
\* clicks counted so far
Executar(aplicar, pagina, carregados, f, ps, n, okRows, okCount) ==
    LET page == PaginaAposAplicar(pagina, aplicar)
    IN  /\ current_page' = page
        /\ last_search_time' = BuscaAposAplicar(last_search_time, aplicar, now)
        /\ filtros_carregados' = carregados
        /\ metadata_chamada' = (metadata_chamada \/ carregados)
        /\ filtros' = f
        /\ registros_por_pagina' = ps
        /\ cliques' = n
        /\ tela' = Desenha(pagina, page, last_search_time, f, ps, now, aplicar, okRows,
                           okCount)
        /\ UNCHANGED <<now, b_in, b_in2, b_out, esquema>>

\* the outcomes of the executions of one run: the count query is executed
\* only when ContaExato
Resultados(aplicar, pagina) ==
    {r \in [rows : BOOLEAN, count : BOOLEAN] :
        ContaExato(aplicar, PaginaAposAplicar(pagina, aplicar)) \/ r.count}

\* "Aplicar Filtros", offered enabled by the page on display
AplicarFiltros ==
    /\ tela.pode_buscar
    /\ \E r \in Resultados(TRUE, current_page) :
         Executar(TRUE, current_page, filtros_carregados, filtros,
                  registros_por_pagina, 0, r.rows, r.count)

\* a run of the script that no button triggered
SemBotao(pagina, carregados, f, ps, n) ==
    \E r \in Resultados(FALSE, pagina) :
        Executar(FALSE, pagina, carregados, f, ps, n, r.rows, r.count)

\* "Primeira"
Primeira ==
    /\ tela.nav
    /\ ~(current_page = 1)
    /\ cliques < MaxCliques
    /\ SemBotao(1, filtros_carregados, filtros, registros_por_pagina, cliques + 1)

\* "Anterior"
Anterior ==
    /\ tela.nav
    /\ ~(current_page = 1)
    /\ cliques < MaxCliques
    /\ SemBotao(current_page - 1, filtros_carregados, filtros, registros_por_pagina,
                cliques + 1)

\* "Próxima"
Proxima ==
    /\ tela.nav
    /\ ~(current_page >= tela.total_paginas)
    /\ cliques < MaxCliques
    /\ SemBotao(current_page + 1, filtros_carregados, filtros, registros_por_pagina,
                cliques + 1)

\* "Última"
Ultima ==
    /\ tela.nav
    /\ ~(current_page >= tela.total_paginas)
    /\ cliques < MaxCliques
    /\ SemBotao(tela.total_paginas, filtros_carregados, filtros, registros_por_pagina,
                cliques + 1)

\* "Carregar Filtros Avançados"
CarregarFiltros ==
    /\ ~filtros_carregados
    /\ SemBotao(current_page, TRUE, filtros, registros_por_pagina, cliques)

\* a filter widget changes its value
EditarFiltros ==
    \E f \in FiltrosDisponiveis(filtros_carregados) :
        /\ f # filtros
        /\ SemBotao(current_page, filtros_carregados, f, registros_por_pagina, cliques)

\* the page-size selectbox changes its value
MudarRegistros ==
    \E i \in DOMAIN OpcoesRegistros :
        /\ OpcoesRegistros[i] # registros_por_pagina
        /\ SemBotao(current_page, filtros_carregados, filtros, OpcoesRegistros[i], cliques)

\* the script is run again with nothing changed
Recarregar ==
    /\ TRUE
    /\ SemBotao(current_page, filtros_carregados, filtros, registros_por_pagina, cliques)

\* time passes between two runs of the script
PassaTempo ==
    /\ now < MaxTempo
    /\ now' = now + 1
    /\ UNCHANGED <<current_page, last_search_time, filtros_carregados, filtros,
                   registros_por_pagina, cliques, tela, metadata_chamada, builder,
                   esquema>>

\* the query functions are idle
BuilderParado ==
    /\ b_in = [f |-> FiltrosPadrao, limit |-> OpcoesRegistros[1], offset |-> 0]
    /\ b_in2 = FiltrosPadrao
    /\ b_out = [feito |-> FALSE, row |-> <<>>, row2 |-> <<>>, count |-> <<>>,
                heavy |-> FALSE]

\* the table has the columns of MapeamentoPadrao and the head of the script
\* is not observed
ColunasPadrao ==
    <<"cnpj_basico", "razao_social", "natureza_juridica", "qualificacao_responsavel",
      "capital_social", "porte">>

EsquemaParado ==
    /\ e_colunas = ColunasPadrao
    /\ e_out = [feito |-> FALSE, mapa |-> SemMapeamento, parado |-> FALSE,
                consultas |-> <<>>]

\* the session after the first run of the script
SessaoInicial(okRows) ==
    /\ current_page = 1
    /\ last_search_time = None
    /\ filtros_carregados = FALSE
    /\ metadata_chamada = FALSE
    /\ filtros = FiltrosPadrao
    /\ registros_por_pagina = OpcoesRegistros[1]
    /\ now = 0
    /\ cliques = 0
    /\ tela = Desenha(1, 1, None, FiltrosPadrao, OpcoesRegistros[1], 0, FALSE, okRows, TRUE)

Init ==
    /\ \E okRows \in BOOLEAN : SessaoInicial(okRows)
    /\ BuilderParado
    /\ EsquemaParado

Next ==
    \/ AplicarFiltros
    \/ Primeira
    \/ Anterior
    \/ Proxima
    \/ Ultima
    \/ CarregarFiltros
    \/ EditarFiltros
    \/ MudarRegistros
    \/ Recarregar
    \/ PassaTempo

Spec == Init /\ [][Next]_vars

-----------------------------------------------------------------------------
(* build_query, get_filtered_count and is_heavy_query called directly *)

\* the i-th size class
PorteValor(i) == "0" \o ToString(2 * i - 1)

PortesCrescente(n) == [i \in 1..n |-> PorteValor(i)]
PortesDecrescente(n) == [i \in 1..n |-> PorteValor(MaxPortes + 1 - i)]

BuilderNomes == {"", "ACME", "O'%_"}
BuilderPortes ==
    {PortesCrescente(n) : n \in 0..MaxPortes} \cup {PortesDecrescente(n) : n \in 0..MaxPortes}
BuilderNaturezas == {"Todas", "2062", ""}
BuilderQualificacoes == {"Todas", "49"}
BuilderCapitais == {None, 0, 1000}
BuilderPaginacao == {<<20, 0>>, <<50, 10000>>, <<100, 10001>>, <<100, 15000>>}

BuilderFiltros ==
    [busca_nome : BuilderNomes, portes : BuilderPortes, natureza : BuilderNaturezas,
     qualificacao : BuilderQualificacoes, capital_min : BuilderCapitais,
     capital_max : BuilderCapitais]

\* the FilterSets of the model with the filters of f present, the same number
\* of size classes, and any values
Variantes(f) ==
    [busca_nome : {b \in BuilderNomes : (b = "") = (f.busca_nome = "")},
     portes : {p \in BuilderPortes : Len(p) = Len(f.portes)},
     natureza : {v \in BuilderNaturezas :
                    (v \in {"", "Todas"}) = (f.natureza \in {"", "Todas"})},
     qualificacao : {v \in BuilderQualificacoes :
                    (v \in {"", "Todas"}) = (f.qualificacao \in {"", "Todas"})},
     capital_min : {c \in BuilderCapitais : (c = None) = (f.capital_min = None)},
     capital_max : {c \in BuilderCapitais : (c = None) = (f.capital_max = None)}]

\* a table "empresas" in which one row group has the empty string as legal
\* nature and the string 'Todas' as qualification
EmpresasComSentinelas ==
    Empresas \o << [like |-> {}, porte |-> "03", natureza |-> "",
                    qualificacao |-> "Todas", capital |-> 0, n |-> 1] >>

\* get_metadata: SELECT DISTINCT <column> FROM empresas WHERE <column> IS NOT NULL
GetMetadata(tabela) ==
    [portes |-> {tabela[i].porte : i \in DOMAIN tabela},
     natureza_juridica |-> {tabela[i].natureza : i \in DOMAIN tabela},
     qualificacao |-> {tabela[i].qualificacao : i \in DOMAIN tabela}]

\* natureza_options and qualificacao_options: 'Todas' and the values observed
NaturezaOptions(tabela) == {"Todas"} \cup GetMetadata(tabela).natureza_juridica
QualificacaoOptions(tabela) == {"Todas"} \cup GetMetadata(tabela).qualificacao

InitBuilder ==
    /\ SessaoInicial(TRUE)
    /\ EsquemaParado
    /\ b_in \in {[f |-> f, limit |-> lo[1], offset |-> lo[2]] :
                    f \in BuilderFiltros, lo \in BuilderPaginacao}
    /\ b_in2 = b_in.f
    /\ b_out = [feito |-> FALSE, row |-> <<>>, row2 |-> <<>>, count |-> <<>>,
                heavy |-> FALSE]

\* the three functions applied to b_in, and build_query to a variant of b_in.f
Chamar ==
    /\ ~b_out.feito
    /\ \E g \in Variantes(b_in.f) :
         /\ b_in2' = g
         /\ b_out' = [feito |-> TRUE,
                      row |-> BuildQuery(b_in.f, b_in.limit, b_in.offset, MapeamentoPadrao),
                      row2 |-> BuildQuery(g, b_in.limit, b_in.offset, MapeamentoPadrao),
                      count |-> BuildCountQuery(b_in.f, MapeamentoPadrao),
                      heavy |-> IsHeavyQuery(b_in.f)]
    /\ UNCHANGED <<b_in, sessao, esquema>>

NextBuilder == Chamar

SpecBuilder == InitBuilder /\ [][NextBuilder]_vars

-----------------------------------------------------------------------------
(* The head of the script: the column mapping and the stop without it *)

\* the columns a field contributes to the discovered table: none, its first
\* candidate, its second candidate in another case, or the second before the
\* first
ColunasDoCampo ==
    [cnpj |-> {<<>>, <<"cnpj_basico">>, <<"CNPJ">>, <<"CNPJ", "cnpj_basico">>},
     razao_social |-> {<<>>, <<"razao_social">>, <<"Nome_Empresarial">>,
                       <<"Nome_Empresarial", "razao_social">>},
     natureza_juridica |-> {<<>>, <<"natureza_juridica">>, <<"NATUREZA">>,
                            <<"NATUREZA", "natureza_juridica">>},
     qualificacao |-> {<<>>, <<"qualificacao_responsavel">>, <<"Qualificacao">>,
                       <<"Qualificacao", "qualificacao_responsavel">>},
     capital_social |-> {<<>>, <<"capital_social">>, <<"Capital">>,
                         <<"Capital", "capital_social">>},
     porte |-> {<<>>, <<"porte">>, <<"PORTE">>, <<"PORTE", "porte">>, <<"cod_porte">>}]

TabelasDescobertas ==
    {a \o b \o c \o d \o e \o f :
        a \in ColunasDoCampo.cnpj, b \in ColunasDoCampo.razao_social,
        c \in ColunasDoCampo.natureza_juridica, d \in ColunasDoCampo.qualificacao,
        e \in ColunasDoCampo.capital_social, f \in ColunasDoCampo.porte}

InitEsquema ==
    /\ SessaoInicial(TRUE)
    /\ BuilderParado
    /\ e_colunas \in TabelasDescobertas
    /\ e_out = [feito |-> FALSE, mapa |-> SemMapeamento, parado |-> FALSE,
                consultas |-> <<>>]

\* the queries one run of the script builds and executes with the mapping m
ConsultasDaRodada(m, aplicar) ==
    <<BuildQuery(FiltrosPadrao, OpcoesRegistros[1], 0, m).query>>
    \o (IF ContaExato(aplicar, 1) THEN <<BuildCountQuery(FiltrosPadrao, m).query>>
        ELSE <<>>)

\* lines 305-317 and what follows them: without a mapping the script stops
\* before any query is built
RodarScript ==
    /\ \E aplicar \in BOOLEAN :
         LET m == GetColumnMapping(e_colunas)
         IN  e_out' = [feito |-> TRUE, mapa |-> m, parado |-> (m = SemMapeamento),
                       consultas |-> IF m = SemMapeamento THEN <<>>
                                     ELSE ConsultasDaRodada(m, aplicar)]
    /\ UNCHANGED <<e_colunas, sessao, builder>>

NextEsquema == RodarScript

SpecEsquema == InitEsquema /\ [][NextEsquema]_vars

-----------------------------------------------------------------------------
(* Properties of the session (specification Spec) *)

\* the last fragment of a query
Ultimo(q) == q[Len(q)]

PassoRodada == now' = now
PassoAplicar == PassoRodada /\ tela'.aplicar
PassoNavegacao == PassoRodada /\ cliques' = cliques + 1

C7_AplicarRespeitaCooldown ==
    [][PassoAplicar =>
        \/ last_search_time = None
        \/ (now - last_search_time) >= COOLDOWN_SECONDS * TicksPorSegundo]_vars

\* C12 as stated: no run shows a row page and a filtered count that come one
\* from a successful and the other from a failed execution, such as rows
\* together with an exact total of 0.
C12_SemMistura ==
    tela.conta_exato => ~(tela.linhas > 0 /\ tela.total_filtrado = 0)

\* the step that loads the advanced filters: a run without "Aplicar Filtros"
\* and without navigation that leaves the widgets and the session page alone
PassoCarregar ==
    /\ PassoRodada
    /\ ~PassoAplicar
    /\ ~PassoNavegacao
    /\ UNCHANGED <<filtros, registros_por_pagina, current_page, last_search_time>>

\* C13: get_metadata has been called only in sessions whose filtros_carregados
\* is True; the flag becomes True only by "Carregar Filtros Avançados" and
\* never returns to False; while it is False the size classes are empty, legal
\* nature and qualification are 'Todas' and the capital bounds are None.
C13_MetadataSoAposCarregar ==
    /\ [](metadata_chamada => filtros_carregados)
    /\ [](~filtros_carregados =>
            /\ filtros.portes = <<>>
            /\ filtros.natureza = "Todas"
            /\ filtros.qualificacao = "Todas"
            /\ filtros.capital_min = None
            /\ filtros.capital_max = None)
    /\ [][filtros_carregados => filtros_carregados']_vars
    /\ [][(~filtros_carregados /\ filtros_carregados') => PassoCarregar]_vars

\* the advanced filters were loaded, get_metadata was called and a size class
\* was selected
C13_Witness ==
    /\ filtros_carregados
    /\ metadata_chamada
    /\ Len(filtros.portes) > 0

-----------------------------------------------------------------------------
(* Properties of the query functions (specification SpecBuilder) *)

\* which filters of f are present, and how many size classes
Presenca(f) ==
    [busca_nome |-> f.busca_nome # "",
     portes |-> Len(f.portes),
     natureza |-> f.natureza \notin {"", "Todas"},
     qualificacao |-> f.qualificacao \notin {"", "Todas"},
     capital_min |-> f.capital_min # None,
     capital_max |-> f.capital_max # None]

\* C8: the fragments the count query appends to its base are those the row
\* query appends to its base, in the same order, the parameter maps are equal,
\* and the row query adds only ORDER BY, LIMIT and OFFSET after them.
C8_MesmoWhere ==
    b_out.feito =>
        LET rq == b_out.row.query
            cq == b_out.count.query
            w == SubSeq(cq, 2, Len(cq))
            n == Len(RowBase(MapeamentoPadrao).query)
        IN  /\ cq[1] = CountBase.query[1]
            /\ SubSeq(rq, 1, n) = RowBase(MapeamentoPadrao).query
            /\ Len(rq) = n + Len(w) + 6
            /\ SubSeq(rq, n + 1, n + Len(w)) = w
            /\ rq[n + Len(w) + 1] = " ORDER BY "
            /\ rq[n + Len(w) + 3] = " LIMIT "
            /\ rq[n + Len(w) + 5] = " OFFSET "
            /\ b_out.row.params = b_out.count.params

\* both queries were built for a FilterSet with every filter present
C8_Witness ==
    /\ b_out.feito
    /\ Presenca(b_in.f) = [busca_nome |-> TRUE, portes |-> MaxPortes, natureza |-> TRUE,
                           qualificacao |-> TRUE, capital_min |-> TRUE,
                           capital_max |-> TRUE]
    /\ Cardinality(DOMAIN b_out.count.params) = MaxPortes + 5

\* C9: two FilterSets with the same filters present and the same number of
\* size classes give the same query text for the same limit and offset; the
\* substring is bound, between wildcards, as the parameter busca_nome alone.
C9_ValoresSoNosParametros ==
    (b_out.feito /\ Presenca(b_in.f) = Presenca(b_in2)) =>
        LET p == b_out.row.params
            padrao == "%" \o b_in.f.busca_nome \o "%"
        IN  /\ b_out.row.query = b_out.row2.query
            /\ b_in.f.busca_nome # "" =>
                  /\ "busca_nome" \in DOMAIN p
                  /\ {k \in DOMAIN p \ {"capital_min", "capital_max"} : p[k] = padrao}
                        = {"busca_nome"}

\* the same text for a substring with a quote and wildcards and a plain one,
\* different size classes and different capital bounds
C9_Witness ==
    /\ b_out.feito
    /\ b_in.f.busca_nome = "O'%_"
    /\ b_in2.busca_nome = "ACME"
    /\ Len(b_in.f.portes) = MaxPortes
    /\ b_in.f.portes # b_in2.portes
    /\ b_in.f.capital_max = 0
    /\ b_in2.capital_max = 1000
    /\ b_out.row.query = b_out.row2.query

\* C10 as stated: is_heavy_query is True exactly for no substring, no capital
\* bound (0 being a bound), 'Todas' and 'Todas', and no or more than two size
\* classes.
C10_PesadaExatamente ==
    b_out.feito =>
        (b_out.heavy <=>
            /\ b_in.f.busca_nome = ""
            /\ b_in.f.capital_min = None
            /\ b_in.f.capital_max = None
            /\ b_in.f.natureza = "Todas"
            /\ b_in.f.qualificacao = "Todas"
            /\ (Len(b_in.f.portes) = 0 \/ Len(b_in.f.portes) > 2))

\* whether the fragment t occurs in the query text q
TemFragmento(q, t) == \E i \in DOMAIN q : q[i] = t

\* C17 as stated: build_query adds the name predicate iff busca_nome is not
\* empty, the IN-list iff a size class is selected, with one placeholder
\* porte_i per member, the legal-nature and qualification equalities iff the
\* value is not 'Todas', the capital predicates iff the bound is not None; with
\* every filter absent the query is the base followed by ORDER BY, LIMIT, OFFSET.
C17_PredicadoSseFiltroPresente ==
    b_out.feito =>
        LET q == b_out.row.query
            f == b_in.f
        IN  /\ TemFragmento(q, Placeholder("busca_nome")) <=> f.busca_nome # ""
            /\ TemFragmento(q, " IN (") <=> Len(f.portes) > 0
            /\ \A i \in 0..(MaxPortes - 1) :
                  TemFragmento(q, Placeholder(PorteKey(i))) <=> i < Len(f.portes)
            /\ TemFragmento(q, Placeholder("natureza")) <=> f.natureza # "Todas"
            /\ TemFragmento(q, Placeholder("qualificacao")) <=> f.qualificacao # "Todas"
            /\ TemFragmento(q, Placeholder("capital_min")) <=> f.capital_min # None
            /\ TemFragmento(q, Placeholder("capital_max")) <=> f.capital_max # None
            /\ f = FiltrosPadrao => Len(q) = Len(RowBase(MapeamentoPadrao).query) + 6

\* C18 as stated: a legal nature or qualification that get_metadata observed
\* in the table and the user selected is bound in an equality predicate.
C18_ValorObservadoFiltra ==
    b_out.feito =>
        LET p == b_out.row.params
            q == b_out.row.query
            f == b_in.f
        IN  /\ f.natureza \in GetMetadata(EmpresasComSentinelas).natureza_juridica =>
                  /\ TemFragmento(q, Placeholder("natureza"))
                  /\ "natureza" \in DOMAIN p
                  /\ p["natureza"] = f.natureza
            /\ f.qualificacao \in GetMetadata(EmpresasComSentinelas).qualificacao =>
                  /\ TemFragmento(q, Placeholder("qualificacao"))
                  /\ "qualificacao" \in DOMAIN p
                  /\ p["qualificacao"] = f.qualificacao

\* the parameter names build_query and get_filtered_count can bind, and one
\* size-class name more
ChavesPossiveis ==
    {"busca_nome", "natureza", "qualificacao", "capital_min", "capital_max"}
        \cup {PorteKey(i) : i \in 0..MaxPortes}

\* the names whose placeholder %(name)s occurs in the query text q
PlaceholdersDe(q) == {k \in ChavesPossiveis : TemFragmento(q, Placeholder(k))}

\* C21: the names of the placeholders in the text of build_query, and in that
\* of get_filtered_count, are exactly the keys of the parameter map returned
\* with it, porte_0 .. porte_{n-1} for n size classes included.
C21_PlaceholdersIgualParametros ==
    b_out.feito =>
        /\ PlaceholdersDe(b_out.row.query) = DOMAIN b_out.row.params
        /\ PlaceholdersDe(b_out.count.query) = DOMAIN b_out.count.params
        /\ \A i \in 0..MaxPortes :
              PorteKey(i) \in DOMAIN b_out.row.params <=> i < Len(b_in.f.portes)

\* every filter present with MaxPortes size classes, beyond MAX_OFFSET: each
\* of the MaxPortes + 5 placeholders has its parameter
C21_Witness ==
    /\ b_out.feito
    /\ Len(b_in.f.portes) = MaxPortes
    /\ b_in.offset > MAX_OFFSET
    /\ Cardinality(PlaceholdersDe(b_out.row.query)) = MaxPortes + 5
    /\ DOMAIN b_out.count.params = PlaceholdersDe(b_out.row.query)

-----------------------------------------------------------------------------
(* Properties of the head of the script (specification SpecEsquema) *)

\* the positions of the candidates of field c that a discovered column
\* carries, compared in lower case
OpcoesPresentes(c) ==
    {k \in DOMAIN ColunasNecessarias[c] :
        \E i \in DOMAIN e_colunas : Lower(e_colunas[i]) = ColunasNecessarias[c][k]}

\* C11: when some field has no candidate among the discovered columns,
\* get_column_mapping yields no mapping and the run builds no row query and no
\* count query; a mapping that is returned has exactly the six fields.
C11_SemMapeamentoSemConsulta ==
    e_out.feito =>
        /\ (\E c \in Campos : OpcoesPresentes(c) = {}) =>
              /\ e_out.mapa = SemMapeamento
              /\ e_out.parado
              /\ e_out.consultas = <<>>
        /\ e_out.mapa # SemMapeamento => DOMAIN e_out.mapa = Campos
        /\ ~e_out.parado => Len(e_out.consultas) > 0

\* columns were discovered, one field has no candidate among them, and the
\* script stopped without a query
C11_Witness ==
    /\ e_out.feito
    /\ Len(e_colunas) >= 5
    /\ Cardinality({c \in Campos : OpcoesPresentes(c) = {}}) = 1
    /\ e_out.parado
    /\ e_out.consultas = <<>>

\* C19: every field of a returned mapping is a discovered column, in its
\* original case, whose lower-case name is the first candidate of the field
\* that is present; no later candidate is chosen when an earlier one is present.
C19_PrimeiraOpcaoPresente ==
    (e_out.feito /\ e_out.mapa # SemMapeamento) =>
        \A c \in Campos :
            LET k0 == CHOOSE k \in OpcoesPresentes(c) :
                          \A j \in OpcoesPresentes(c) : k <= j
            IN  /\ \E i \in DOMAIN e_colunas : e_colunas[i] = e_out.mapa[c]
                /\ Lower(e_out.mapa[c]) = ColunasNecessarias[c][k0]

\* a second candidate in upper case was taken where the first is absent, and
\* the first candidate where the second comes earlier in the table
C19_Witness ==
    /\ e_out.feito
    /\ e_out.mapa # SemMapeamento
    /\ e_out.mapa.cnpj = "CNPJ"
    /\ e_out.mapa.razao_social = "razao_social"
    /\ \E i \in DOMAIN e_colunas : e_colunas[i] = "Nome_Empresarial"
    /\ e_out.mapa.porte = "PORTE"

====
